---------------------------- MODULE Spec2Model ----------------------------
(***************************************************************************)
(* Model of custom_components/dsrsd_water_usage/sensor.py: the sensor      *)
(* DSRSDWaterUsage, its poll get_water_usage (login, bind_multi_meter,     *)
(* get_billing_data, call_load_water_usage_api, the record loop, logout)  *)
(* and the reporting step of async_update.                                 *)
(*                                                                         *)
(* The portal is the environment: every request draws its response from a *)
(* small set.  A response is [kind, status_code, items]:                   *)
(*   kind "ConnErr"     the transport failed, requests raises             *)
(*        "NotJSON"     a body that response.json() cannot decode         *)
(*        "EmptyObject" the JSON object {}                                 *)
(*        "NoKey"       a non-empty JSON object without the endpoint's key *)
(*        "Keyed"       a JSON object holding the endpoint's list in items *)
(* Python's None is None (numbers), NoneStr (strings), PyNone (lists).     *)
(* An operator that models a method returns [raised, value]: raised is "" *)
(* when the method returns value, else the name of the exception.          *)
(* Not modelled: self.dates, the session cookie and the extra state       *)
(* attributes, which no operation below reads back.                        *)
(***************************************************************************)
EXTENDS Integers, Sequences, FiniteSets, TLC

VARIABLES
    pc,                   \* position of the poll: idle, login, bind, billing, usage, logout, returned, raised
    exc,                  \* exception that left get_water_usage ("" when none)
    calls,                \* methods get_water_usage has invoked in this poll, in order
    login_success,        \* local of get_water_usage (line 81)
    login_post,           \* response the portal gave to the credential POST of this poll
    response,             \* last response the session received
    water_usage_response, \* local of get_water_usage (line 105)
    all_records,          \* local of get_water_usage (line 92)
    result,               \* value get_water_usage returned (new_data of async_update)
    account_number,       \* self.account_number
    billing_details,      \* self.billing_details
    time_series_data,     \* self.time_series_data
    _state,               \* self._state
    sink,                 \* stats_data of the latest async_add_external_statistics call
    reported,             \* the poll that just ended called the statistics sink
    reporting             \* guard of the reporting path of async_update (line 149)

vars == <<pc, exc, calls, login_success, login_post, response, water_usage_response,
          all_records, result, account_number, billing_details, time_series_data,
          _state, sink, reported, reporting>>

-----------------------------------------------------------------------------
\* Bounds of the model.
MaxMeters == 2
MaxRecords == 2
MaxStored == 3

\* Python values.
None == -1
NoneStr == "None"
PyNone == [is_none |-> TRUE, list |-> <<>>]
PyList(l) == [is_none |-> FALSE, list |-> l]
Ret(v) == [raised |-> "", value |-> v]
Raise(e) == [raised |-> e, value |-> None]

HTTP_OK == 200
StatusCodes == {HTTP_OK, 401}

SeqUpTo(S, n) == UNION {[1..k -> S] : k \in 0..n}

\* Inputs: what the portal can answer.
Absent == "absent"
MeterIds == {"m1", "m2"}
Meters == [_id : MeterIds \cup {Absent}, IsAMI : BOOLEAN]
Times == {1}
Gallons == {1, 2}
WaterUseActuals == {<<>>} \cup {<<g>> : g \in Gallons \cup {None}}
Records == [startTime : Times, waterUseActual : WaterUseActuals]
Aggregates == {Absent, "no billAmount", "billAmount"}
Attributes == [metricAggregates : Aggregates]

Resp(k, s, i) == [kind |-> k, status_code |-> s, items |-> i]
NoResponse == Resp("none", HTTP_OK, <<>>)
ConnErr == Resp("ConnErr", HTTP_OK, <<>>)
PageResponses == {ConnErr} \cup {Resp("NotJSON", s, <<>>) : s \in StatusCodes}
JsonResponses(Items, n) ==
    {ConnErr} \cup {Resp(k, HTTP_OK, <<>>) : k \in {"NotJSON", "EmptyObject", "NoKey"}}
              \cup {Resp("Keyed", HTTP_OK, i) : i \in SeqUpTo(Items, n)}
AccountsResponses == JsonResponses(Meters, MaxMeters)
BillingResponses == JsonResponses(Attributes, MaxMeters)
TimeseriesResponses == JsonResponses(Records, MaxRecords)

-----------------------------------------------------------------------------
\* Python truthiness of a decoded body: None and {} are falsy.
NoneJson == [kind |-> "None", items |-> <<>>, response |-> None]
Truthy(json) == json.kind \notin {"None", "EmptyObject"}

\* make_get_api_request: the GET raises on a transport failure; with extract_json
\* the decoded body, or None when it does not decode; without it the dictionary
\* {'response': status_code, 'data': text}.  The decode error of requests is a
\* json.JSONDecodeError, which line 284 catches; no other exception is caught.
make_get_api_request(resp, extract_json) ==
    IF resp.kind = "ConnErr" THEN Raise("ConnectionError")
    ELSE IF extract_json
         THEN IF resp.kind = "NotJSON" THEN Ret(NoneJson)
              ELSE Ret([kind |-> resp.kind, items |-> resp.items, response |-> None])
         ELSE Ret([kind |-> "Keyed", items |-> <<>>, response |-> resp.status_code])

\* make_api_request for the login URL: the POST, whose response is only logged,
\* then the GET of the notes endpoint without JSON extraction.
make_api_request(post, notes) ==
    IF post.kind = "ConnErr" THEN Raise("ConnectionError")
    ELSE make_get_api_request(notes, FALSE)

\* A variant of login that reads the status of the credential POST.
login_post_status(base, post, notes) ==
    IF base.kind = "ConnErr" \/ post.kind = "ConnErr" \/ notes.kind = "ConnErr"
    THEN Raise("ConnectionError")
    ELSE Ret(post.status_code = HTTP_OK)

login(base, post, notes) ==
    IF base.kind = "ConnErr" THEN Raise("ConnectionError")
    ELSE LET login_response_json == make_api_request(post, notes)
         IN IF login_response_json.raised # "" THEN login_response_json
            ELSE IF Truthy(login_response_json.value)
                 THEN Ret(login_response_json.value.response = HTTP_OK)
                 ELSE Ret(FALSE)

\* meter.get("_id", "")
MeterId(meter) == IF meter._id = Absent THEN "" ELSE meter._id

\* The scan of bind_multi_meter (lines 212-216) over the meters from position i.
RECURSIVE scan_meters(_, _)
scan_meters(meters, i) ==
    IF i > Len(meters)
    THEN IF meters = <<>> THEN Raise("IndexError") ELSE Ret(MeterId(meters[1]))
    ELSE IF meters[i].IsAMI THEN Ret(MeterId(meters[i]))
         ELSE scan_meters(meters, i + 1)

\* A variant of the scan that always falls back to the first meter.
bind_first_meter(resp) ==
    LET r == make_get_api_request(resp, TRUE)
    IN IF r.raised # "" THEN r
       ELSE IF Truthy(r.value)
            THEN IF r.value.kind = "Keyed"
                 THEN IF r.value.items = <<>> THEN Raise("IndexError")
                      ELSE Ret(MeterId(r.value.items[1]))
                 ELSE Ret("")
            ELSE Ret(NoneStr)

bind_multi_meter(resp) ==
    LET response_json == make_get_api_request(resp, TRUE)
    IN IF response_json.raised # "" THEN response_json
       ELSE IF Truthy(response_json.value)
            THEN IF response_json.value.kind = "Keyed"
                 THEN scan_meters(response_json.value.items, 1)
                 ELSE Ret("")            \* the default [{}]: meters[0].get("_id", "")
            ELSE Ret(NoneStr)

\* The scan of get_billing_data (lines 229-232).
RECURSIVE scan_bills(_)
scan_bills(attributes) ==
    IF attributes = <<>> THEN NoneStr
    ELSE IF Head(attributes).metricAggregates # Absent
         THEN IF Head(attributes).metricAggregates = "billAmount" THEN "billAmount"
              ELSE NoneStr
         ELSE scan_bills(Tail(attributes))

get_billing_data(resp) ==
    LET response_json == make_get_api_request(resp, TRUE)
    IN IF response_json.raised # "" THEN response_json
       ELSE IF Truthy(response_json.value) /\ response_json.value.kind = "Keyed"
            THEN Ret(scan_bills(response_json.value.items))
            ELSE Ret(NoneStr)

\* The record loop of get_water_usage (lines 108-116).
RECURSIVE parse_records(_, _)
parse_records(records, acc) ==
    IF records = <<>> THEN Ret(acc)
    ELSE LET record == Head(records)
             waterUseActual == record.waterUseActual
         IN IF waterUseActual = <<>> THEN Raise("AttributeError")
            ELSE parse_records(Tail(records),
                               Append(acc, <<record.startTime, waterUseActual[1]>>))

\* A variant of the test that only rejects None.
is_none_account(account) == account = NoneStr

\* not self.account_number
Falsy(account) == account \in {NoneStr, ""}

\* The loop of update_statistics (lines 133-140): the running sum starts at 0 in
\* every call; adding a usage of None raises.
RECURSIVE stats_loop(_, _, _)
stats_loop(new_data, usage_sum, stats_data) ==
    IF new_data = <<>> THEN Ret(stats_data)
    ELSE LET datetime_str == Head(new_data)[1]
             usage == Head(new_data)[2]
         IN IF usage = None THEN Raise("TypeError")
            ELSE stats_loop(Tail(new_data), usage_sum + usage,
                            Append(stats_data, [start |-> datetime_str, state |-> usage,
                                                sum |-> usage_sum + usage]))

\* A variant of the loop that does not accumulate: sum is the record's own usage.
RECURSIVE stats_loop_no_carry(_, _)
stats_loop_no_carry(new_data, stats_data) ==
    IF new_data = <<>> THEN Ret(stats_data)
    ELSE LET datetime_str == Head(new_data)[1]
             usage == Head(new_data)[2]
         IN IF usage = None THEN Raise("TypeError")
            ELSE stats_loop_no_carry(Tail(new_data),
                            Append(stats_data, [start |-> datetime_str, state |-> usage,
                                                sum |-> usage]))

update_statistics_no_carry(new_data) ==
    IF new_data.is_none THEN Raise("TypeError")
    ELSE stats_loop_no_carry(new_data.list, <<>>)

\* A variant that takes None for an empty list.
update_statistics_none_as_empty(new_data) ==
    IF new_data.is_none THEN Ret(<<>>)
    ELSE stats_loop(new_data.list, 0, <<>>)

\* update_statistics: the value is the stats_data handed to the sink; iterating
\* over None raises before the sink is called.
update_statistics(new_data) ==
    IF new_data.is_none THEN Raise("TypeError")
    ELSE stats_loop(new_data.list, 0, <<>>)

\* sum(value for _, value in self.time_series_data)
RECURSIVE total_gallons(_)
total_gallons(data) ==
    IF data = <<>> THEN 0 ELSE Head(data)[2] + total_gallons(Tail(data))

-----------------------------------------------------------------------------
\* __init__ (lines 31-42), no poll running.
InitSensor ==
    /\ pc = "idle"
    /\ exc = ""
    /\ calls = <<>>
    /\ login_success = FALSE
    /\ login_post = NoResponse
    /\ response = NoResponse
    /\ water_usage_response = NoneJson
    /\ all_records = <<>>
    /\ result = PyNone
    /\ account_number = NoneStr
    /\ billing_details = NoneStr
    /\ time_series_data = <<>>
    /\ _state = None
    /\ sink = <<>>
    /\ reported = FALSE

\* The sensor as written: the reporting path of async_update is guarded by False.
Init == InitSensor /\ reporting = FALSE

\* The sensor as written and the sensor with the reporting path enabled.
InitReporting == InitSensor /\ reporting \in BOOLEAN

Sensor == <<account_number, billing_details, time_series_data, _state, sink, reporting>>
Locals == <<login_success, login_post, water_usage_response, all_records, result>>

\* The scheduler starts a poll: async_update calls get_water_usage (line 147).
\* Polls stop once time_series_data holds MaxStored records.
AsyncUpdateBegin ==
    /\ pc = "idle"
    /\ Len(time_series_data) < MaxStored
    /\ pc' = "login"
    /\ exc' = ""
    /\ calls' = <<>>
    /\ login_success' = FALSE
    /\ login_post' = NoResponse
    /\ response' = NoResponse
    /\ water_usage_response' = NoneJson
    /\ all_records' = <<>>
    /\ result' = PyNone
    /\ reported' = FALSE
    /\ UNCHANGED Sensor

\* Lines 81-85: login, return None when it failed.
Login ==
    /\ pc = "login"
    /\ \E base \in PageResponses, post \in PageResponses, notes \in PageResponses :
         LET r == login(base, post, notes)
         IN /\ calls' = Append(calls, "login")
            /\ login_post' = IF base.kind = "ConnErr" THEN NoResponse ELSE post
            /\ response' = IF base.kind = "ConnErr" THEN base
                            ELSE IF post.kind = "ConnErr" THEN post ELSE notes
            /\ exc' = r.raised
            /\ login_success' = IF r.raised = "" THEN r.value ELSE FALSE
            /\ pc' = IF r.raised # "" THEN "raised"
                      ELSE IF r.value THEN "bind" ELSE "returned"
            /\ result' = PyNone
    /\ UNCHANGED <<water_usage_response, all_records, reported>>
    /\ UNCHANGED Sensor

\* Line 87: self.account_number = self.bind_multi_meter()
BindMultiMeter ==
    /\ pc = "bind"
    /\ \E resp \in AccountsResponses :
         LET r == bind_multi_meter(resp)
         IN /\ calls' = Append(calls, "bind_multi_meter")
            /\ response' = resp
            /\ exc' = r.raised
            /\ account_number' = IF r.raised = "" THEN r.value ELSE account_number
            /\ pc' = IF r.raised # "" THEN "raised" ELSE "billing"
    /\ UNCHANGED <<billing_details, time_series_data, _state, sink, reporting>>
    /\ UNCHANGED reported
    /\ UNCHANGED Locals

\* Lines 88-91: self.billing_details = self.get_billing_data(), then return None
\* when no account was bound.
GetBillingData ==
    /\ pc = "billing"
    /\ \E resp \in BillingResponses :
         LET r == get_billing_data(resp)
         IN /\ calls' = Append(calls, "get_billing_data")
            /\ response' = resp
            /\ exc' = r.raised
            /\ billing_details' = IF r.raised = "" THEN r.value ELSE billing_details
            /\ pc' = IF r.raised # "" THEN "raised"
                      ELSE IF Falsy(account_number) THEN "returned" ELSE "usage"
    /\ result' = PyNone
    /\ UNCHANGED <<account_number, time_series_data, _state, sink, reporting>>
    /\ UNCHANGED <<login_success, login_post, water_usage_response, all_records>>
    /\ UNCHANGED reported

\* Lines 105-118: the time-series request and the record loop.
CallLoadWaterUsageApi ==
    /\ pc = "usage"
    /\ \E resp \in TimeseriesResponses :
         LET r == make_get_api_request(resp, TRUE)
             records == IF r.value.kind = "Keyed" THEN r.value.items ELSE <<>>
             parsed == IF r.raised # "" THEN r
                       ELSE IF Truthy(r.value) THEN parse_records(records, <<>>)
                       ELSE Ret(<<>>)
         IN /\ calls' = Append(calls, "call_load_water_usage_api")
            /\ response' = resp
            /\ water_usage_response' = IF r.raised = "" THEN r.value ELSE NoneJson
            /\ exc' = parsed.raised
            /\ all_records' = IF parsed.raised = "" THEN parsed.value ELSE <<>>
            /\ pc' = IF parsed.raised # "" THEN "raised" ELSE "logout"
    /\ UNCHANGED <<login_success, login_post, result, reported>>
    /\ UNCHANGED Sensor

\* Lines 120-121 and logout (lines 197-203): the GET, a log line, return all_records.
Logout ==
    /\ pc = "logout"
    /\ \E resp \in PageResponses :
         /\ calls' = Append(calls, "logout")
         /\ response' = resp
         /\ exc' = IF resp.kind = "ConnErr" THEN "ConnectionError" ELSE ""
         /\ pc' = IF resp.kind = "ConnErr" THEN "raised" ELSE "returned"
         /\ result' = IF resp.kind = "ConnErr" THEN PyNone ELSE PyList(all_records)
    /\ UNCHANGED <<login_success, login_post, water_usage_response, all_records>>
    /\ UNCHANGED reported
    /\ UNCHANGED Sensor

\* Lines 148-177: what async_update does with new_data; every exception is caught
\* and logged (line 176).
AsyncUpdateEnd ==
    /\ pc \in {"returned", "raised"}
    /\ pc' = "idle"
    /\ LET stats == IF reporting /\ pc = "returned" THEN update_statistics(result)
                    ELSE Raise("skipped")
       IN IF stats.raised = ""
          THEN /\ sink' = stats.value
               /\ reported' = TRUE
               /\ time_series_data' = time_series_data \o result.list
               /\ _state' = total_gallons(time_series_data \o result.list)
          ELSE UNCHANGED <<sink, reported, time_series_data, _state>>
    /\ UNCHANGED <<exc, calls, response, account_number, billing_details, reporting>>
    /\ UNCHANGED Locals

Next ==
    \/ AsyncUpdateBegin
    \/ Login
    \/ BindMultiMeter
    \/ GetBillingData
    \/ CallLoadWaterUsageApi
    \/ Logout
    \/ AsyncUpdateEnd

Spec == Init /\ [][Next]_vars
SpecReporting == InitReporting /\ [][Next]_vars

-----------------------------------------------------------------------------
\* Vocabulary of the properties.
LastCall == IF calls = <<>> THEN "" ELSE calls[Len(calls)]
\* get_water_usage is running or has just ended, and name is the last method it invoked.
JustCalled(name) == pc # "idle" /\ calls # <<>> /\ calls[Len(calls)] = name
Called(name) == \E i \in 1..Len(calls) : calls[i] = name
Count(name) == Cardinality({i \in 1..Len(calls) : calls[i] = name})
PollEnded == pc \in {"returned", "raised"}
UsageCall == "call_load_water_usage_api"
WellFormed(record) == record.waterUseActual # <<>> /\ record.waterUseActual[1] # None
AsTuple(record) == <<record.startTime, record.waterUseActual[1]>>
\* get_water_usage returned without data: None, or no records after a usage
\* fetch that gave nothing.
FailedPoll ==
    /\ pc = "returned"
    /\ \/ result.is_none
       \/ result.list = <<>> /\ ~Truthy(water_usage_response)

\* C1: every poll that has ended, by a return or by an exception, has invoked
\* logout exactly once.
C1_LogoutExactlyOnce == PollEnded => Count("logout") = 1

C3_LoginIffPostStatus ==
    (JustCalled("login") /\ pc # "raised") =>
        (login_success <=> login_post.status_code = HTTP_OK)

\* C3 as amended: right after login, it returned true exactly when all three
\* requests completed and the notes probe (the last response) answered 200; it
\* returned false exactly when they completed and the probe answered otherwise;
\* it raised exactly when a request failed in transport.
C3_LoginIffNotesStatus ==
    JustCalled("login") =>
        /\ login_success <=> (response.kind # "ConnErr" /\ response.status_code = HTTP_OK)
        /\ pc = "bind" <=> login_success
        /\ pc = "returned" <=> (response.kind # "ConnErr" /\ response.status_code # HTTP_OK)
        /\ pc = "raised" <=> response.kind = "ConnErr"

C3_Witness ==
    /\ JustCalled("login") /\ login_success
    /\ login_post.kind # "none" /\ login_post.status_code # HTTP_OK

\* C4: no exception leaves get_water_usage or a method it calls.
C4_NoExceptionPropagates == pc # "raised" /\ exc = ""

\* C5: bind_multi_meter on an empty account list returns None.
C5_EmptyListReturnsNull ==
    (JustCalled("bind_multi_meter") /\ response.kind = "Keyed" /\ response.items = <<>>) =>
        pc # "raised" /\ account_number = NoneStr

\* C6: when exactly one record of the time-series response lacks waterUseActual,
\* the record loop yields the other records.
C6_DefectiveRecordSkipped ==
    (/\ JustCalled(UsageCall) /\ response.kind = "Keyed"
     /\ Cardinality({i \in 1..Len(response.items) :
                        response.items[i].waterUseActual = <<>>}) = 1) =>
        /\ pc # "raised"
        /\ Len(all_records) = Len(response.items) - 1

\* C7: bind_multi_meter on a non-empty account list returns the id of the first
\* meter flagged IsAMI, and the id of the first meter when none is flagged.
C7_AmiPreference ==
    (JustCalled("bind_multi_meter") /\ response.kind = "Keyed" /\ response.items # <<>>) =>
        LET meters == response.items
            flagged == {i \in 1..Len(meters) : meters[i].IsAMI}
            chosen == IF flagged = {} THEN 1
                      ELSE CHOOSE i \in flagged : \A j \in flagged : i <= j
            id == IF meters[chosen]._id = Absent THEN "" ELSE meters[chosen]._id
        IN pc = "billing" /\ account_number = id

C7_Witness ==
    /\ JustCalled("bind_multi_meter") /\ response.kind = "Keyed" /\ Len(response.items) = 2
    /\ ~response.items[1].IsAMI /\ response.items[2].IsAMI
    /\ response.items[1]._id = "m1" /\ response.items[2]._id = "m2"
    /\ account_number = "m2"

\* C8: a poll whose login and account resolution succeeded and whose time-series
\* response holds only well-formed records returns exactly those records, in order.
C8_AllRecordsReturned ==
    (/\ PollEnded /\ Called(UsageCall)
     /\ water_usage_response.kind = "Keyed"
     /\ \A i \in 1..Len(water_usage_response.items) :
            WellFormed(water_usage_response.items[i])) =>
        /\ pc = "returned"
        /\ result = PyList([i \in 1..Len(water_usage_response.items) |->
                               AsTuple(water_usage_response.items[i])])

\* C9 as claimed: the step of async_update that follows a failed poll leaves
\* _state as it was, with the reporting path disabled and with it enabled.
C9_FailedPollKeepsState ==
    [][(FailedPoll /\ pc' = "idle") => _state' = _state]_vars

\* C9 as amended: the step of async_update that follows a failed poll leaves
\* _state as it was, except that with the reporting path enabled a poll that
\* returned an empty list sets a state that is still None.
C9_FailedPollKeepsReportedState ==
    [][(FailedPoll /\ pc' = "idle" /\ ~(reporting /\ ~result.is_none /\ _state = None))
          => _state' = _state]_vars

C9_Witness ==
    /\ pc = "idle" /\ reporting /\ LastCall = "logout"
    /\ ~result.is_none /\ result.list = <<>> /\ ~Truthy(water_usage_response)
    /\ _state > 0

\* C10 as claimed: the last tuple handed to the statistics sink carries the sum
\* of every record held in time_series_data after that poll.
C10_RunningSumOverMemory ==
    (reported /\ sink # <<>>) => sink[Len(sink)].sum = total_gallons(time_series_data)

RECURSIVE SumTo(_, _)
SumTo(data, i) == IF i = 0 THEN 0 ELSE data[i][2] + SumTo(data, i - 1)

\* C10 as amended: the tuples handed to the statistics sink are the records the
\* poll returned, in order, each with the sum of that poll's records up to it.
C10_RunningSumOverPoll ==
    reported =>
        /\ Len(sink) = Len(result.list)
        /\ \A i \in 1..Len(sink) :
              /\ sink[i].start = result.list[i][1]
              /\ sink[i].state = result.list[i][2]
              /\ sink[i].sum = SumTo(result.list, i)

C10_Witness ==
    /\ reported /\ Len(sink) = 2 /\ Len(time_series_data) > Len(sink)
    /\ sink[2].sum = sink[1].state + sink[2].state
    /\ sink[2].sum < total_gallons(time_series_data)

=============================================================================
